---------------------------- MODULE Spec2Model ----------------------------
(***************************************************************************)
(* A model of tensorflow_model_analysis/types.py (the constructors of      *)
(* ValueWithConfidenceInterval and EvalSharedModel) and of                 *)
(* tensorflow_model_analysis/notebook/colab/renderer.py (the three render  *)
(* functions that forward to util.render_component).                       *)
(***************************************************************************)
EXTENDS Integers, Sequences, FiniteSets

VARIABLES
  sinkLog,    \* every invocation of util.render_component, in order
  renderLog,  \* every call of a render function, with what it did
  civ,        \* the last ValueWithConfidenceInterval(...) call and its result
  newCall,    \* the last EvalSharedModel(...) call of the single-call specification
  models,     \* the EvalSharedModel instances constructed so far, in order
  nextId,     \* the identity the next object created by a constructor receives
  obs         \* per evaluation worker: what it last read from a descriptor

vars == <<sinkLog, renderLog, civ, newCall, models, nextId, obs>>

(***************************************************************************)
(* Bounds of the model.                                                    *)
(***************************************************************************)
MaxCalls == 2
MaxModels == 2
NumWorkers == 2

(***************************************************************************)
(* Python values.  A value is a record of its type, its object identity    *)
(* (0 for the singletons and for numbers, which carry no identity that     *)
(* matters) and its content as a sequence of integers: the items of a      *)
(* list, the code points of a string, the number of a float or bool.       *)
(***************************************************************************)
Py(t, id, v) == [t |-> t, id |-> id, v |-> v]

PyNone == Py("NoneType", 0, <<>>)
PyTrue == Py("bool", 0, <<1>>)
PyFalse == Py("bool", 0, <<0>>)
PyFloat(x) == Py("float", 0, <<x>>)

\* The marker of a keyword argument the caller did not pass.
Omitted == Py("<omitted>", 0, <<>>)

\* A parameter with a default: the argument when passed, else the default.
Param(arg, default) == IF arg = Omitted THEN default ELSE arg

\* Python's truth test, as `not x` applies it.
Truthy(x) ==
  CASE x.t = "NoneType" -> FALSE
    [] x.t \in {"bool", "float"} -> x.v[1] # 0
    [] x.t \in {"list", "str", "dict"} -> Len(x.v) > 0
    [] OTHER -> TRUE

(***************************************************************************)
(* notebook/colab/renderer.py                                              *)
(***************************************************************************)
NoError == "none"

\* What the display sink may do with an invocation: return, or fail.
SinkOutcomes == {NoError, "ValueError", "RuntimeError"}

\* One invocation of util.render_component(component, data, config), ending
\* in `raised`.
render_component(component, data, config, raised) ==
  [component |-> component, data |-> data, config |-> config, raised |-> raised]

\* A call fn(data, config) that made the sink invocations `sink` and ended
\* in `raised` (NoError: it returned None).
Called(fn, data, config, sink, raised) ==
  /\ Len(renderLog) < MaxCalls
  /\ sinkLog' = sinkLog \o sink
  /\ renderLog' = Append(renderLog,
       [fn |-> fn, data |-> data, config |-> config, sink |-> sink, raised |-> raised])
  /\ UNCHANGED <<civ, newCall, models, nextId, obs>>

\* The body shared by the three functions: one statement, the call of the
\* sink; its failure, if any, is the function's.
Forward(fn, component, data, config) ==
  \E out \in SinkOutcomes :
    Called(fn, data, config, <<render_component(component, data, config, out)>>, out)

\* Mutant: the call is repeated once when the sink fails.
render_slicing_metrics_retry(data, config) ==
  \E out \in SinkOutcomes, again \in SinkOutcomes :
    LET first == render_component("tfma-nb-slicing-metrics", data, config, out)
        second == render_component("tfma-nb-slicing-metrics", data, config, again)
    IN IF out = NoError
         THEN Called("render_slicing_metrics", data, config, <<first>>, out)
         ELSE Called("render_slicing_metrics", data, config, <<first, second>>, again)

render_slicing_metrics(data, config) ==
  Forward("render_slicing_metrics", "tfma-nb-slicing-metrics", data, config)

\* Mutant: the sink's failure is caught and a RenderError raised instead.
render_time_series_wrap(data, config) ==
  \E out \in SinkOutcomes :
    Called("render_time_series", data, config,
           <<render_component("tfma-nb-time-series", data, config, out)>>,
           IF out = NoError THEN NoError ELSE "RenderError")

render_time_series(data, config) ==
  Forward("render_time_series", "tfma-nb-time-series", data, config)

\* Mutant: the plot view is sent to the time series component.
render_plot_misnamed(data, config) ==
  Forward("render_plot", "tfma-nb-time-series", data, config)

render_plot(data, config) ==
  Forward("render_plot", "tfma-nb-plot", data, config)

\* The arguments the callers pass: {"series": [1, 2, 3]}, an empty list of
\* slices, and None (malformed: neither a list nor a dict).
PlotData == Py("dict", 1, <<1, 2, 3>>)
DataValues == {PlotData, Py("list", 2, <<>>), PyNone}

\* {"title": "x"} and an empty configuration.
PlotConfig == Py("dict", 3, <<120>>)
ConfigValues == {PlotConfig, Py("dict", 4, <<>>)}

NextRender ==
  \E data \in DataValues, config \in ConfigValues :
    \/ render_slicing_metrics(data, config)
    \/ render_time_series(data, config)
    \/ render_plot(data, config)

(***************************************************************************)
(* types.py: ValueWithConfidenceInterval                                   *)
(***************************************************************************)
\* Mutant: an omitted bound becomes the number 0.0.
ValueWithConfidenceInterval_new_zero(value, lower_bound, upper_bound, unsampled_value) ==
  [raised |-> NoError,
   obj |-> [value |-> value,
            lower_bound |-> Param(lower_bound, PyFloat(0)),
            upper_bound |-> Param(upper_bound, PyFloat(0)),
            unsampled_value |-> Param(unsampled_value, PyFloat(0))]]

\* Mutant: the bounds checking the source's comment asks about is added.
ValueWithConfidenceInterval_new_checked(value, lower_bound, upper_bound, unsampled_value) ==
  LET lb == Param(lower_bound, PyNone)
      ub == Param(upper_bound, PyNone)
      Above(a, b) == a.t = "float" /\ b.t = "float" /\ a.v[1] > b.v[1]
  IN [raised |-> IF Above(lb, value) \/ Above(value, ub) \/ Above(lb, ub)
                   THEN "ValueError" ELSE NoError,
      obj |-> [value |-> value, lower_bound |-> lb, upper_bound |-> ub,
               unsampled_value |-> Param(unsampled_value, PyNone)]]

\* __new__(cls, value, lower_bound=None, upper_bound=None,
\* unsampled_value=None): the tuple of the four values, nothing checked.
ValueWithConfidenceInterval_new(value, lower_bound, upper_bound, unsampled_value) ==
  [raised |-> NoError,
   obj |-> [value |-> value,
            lower_bound |-> Param(lower_bound, PyNone),
            upper_bound |-> Param(upper_bound, PyNone),
            unsampled_value |-> Param(unsampled_value, PyNone)]]

CivNumbers == {PyFloat(1), PyFloat(5), PyFloat(9)}
CivOptionals == CivNumbers \cup {PyNone, Omitted}

\* A caller constructs a ValueWithConfidenceInterval.
NewValueWithConfidenceInterval ==
  /\ \E value \in CivNumbers, lower_bound \in CivOptionals,
        upper_bound \in CivOptionals, unsampled_value \in CivOptionals :
       civ' = [called |-> TRUE,
               args |-> [value |-> value, lower_bound |-> lower_bound,
                         upper_bound |-> upper_bound,
                         unsampled_value |-> unsampled_value],
               result |-> ValueWithConfidenceInterval_new(
                            value, lower_bound, upper_bound, unsampled_value)]
  /\ UNCHANGED <<sinkLog, renderLog, newCall, models, nextId, obs>>

(***************************************************************************)
(* types.py: EvalSharedModel                                               *)
(***************************************************************************)
\* shared.Shared(): a new handle object, of the identity the heap gives it.
Shared(id) == Py("Shared", id, <<>>)

\* []: a new empty list object.
EmptyList(id) == Py("list", id, <<>>)

\* The named tuple of the six field values.
Fields(mp, amc, idm, ewk, sh, cf) ==
  [model_path |-> mp, add_metrics_callbacks |-> amc, include_default_metrics |-> idm,
   example_weight_key |-> ewk, shared_handle |-> sh, construct_fn |-> cf]

\* The result of a constructor call: the instance, the heap after it and the
\* handles shared.Shared() made during it.
Constructed(obj, heap, created) == [obj |-> obj, heap |-> heap, created |-> created]

\* Mutant: the default handle is made once, when the function is defined
\* (shared_handle=shared.Shared() in the signature).
EvalSharedModel_new_global(args, heap) ==
  LET amc0 == Param(args.add_metrics_callbacks, PyNone)
      fresh == ~Truthy(amc0)
  IN Constructed(Fields(Param(args.model_path, PyNone),
                        IF fresh THEN EmptyList(heap) ELSE amc0,
                        Param(args.include_default_metrics, PyTrue),
                        Param(args.example_weight_key, PyNone),
                        Param(args.shared_handle, Shared(9)),
                        Param(args.construct_fn, PyNone)),
                 IF fresh THEN heap + 1 ELSE heap, {})

\* Mutant: the test of shared_handle is lost and a handle is always made.
EvalSharedModel_new_always(args, heap) ==
  LET amc0 == Param(args.add_metrics_callbacks, PyNone)
      fresh == ~Truthy(amc0)
      heap1 == IF fresh THEN heap + 1 ELSE heap
  IN Constructed(Fields(Param(args.model_path, PyNone),
                        IF fresh THEN EmptyList(heap) ELSE amc0,
                        Param(args.include_default_metrics, PyTrue),
                        Param(args.example_weight_key, PyNone),
                        Shared(heap1),
                        Param(args.construct_fn, PyNone)),
                 heap1 + 1, {Shared(heap1)})

\* Mutant: include_default_metrics defaults to None like its neighbours.
EvalSharedModel_new_nodefault(args, heap) ==
  LET amc0 == Param(args.add_metrics_callbacks, PyNone)
      sh0 == Param(args.shared_handle, PyNone)
      fresh == ~Truthy(amc0)
      heap1 == IF fresh THEN heap + 1 ELSE heap
      make == ~Truthy(sh0)
  IN Constructed(Fields(Param(args.model_path, PyNone),
                        IF fresh THEN EmptyList(heap) ELSE amc0,
                        Param(args.include_default_metrics, PyNone),
                        Param(args.example_weight_key, PyNone),
                        IF make THEN Shared(heap1) ELSE sh0,
                        Param(args.construct_fn, PyNone)),
                 IF make THEN heap1 + 1 ELSE heap1,
                 IF make THEN {Shared(heap1)} ELSE {})

\* Mutant: add_metrics_callbacks is stored as passed, to be normalized by
\* whoever reads it.
EvalSharedModel_new_lazy(args, heap) ==
  LET sh0 == Param(args.shared_handle, PyNone)
      make == ~Truthy(sh0)
  IN Constructed(Fields(Param(args.model_path, PyNone),
                        Param(args.add_metrics_callbacks, PyNone),
                        Param(args.include_default_metrics, PyTrue),
                        Param(args.example_weight_key, PyNone),
                        IF make THEN Shared(heap) ELSE sh0,
                        Param(args.construct_fn, PyNone)),
                 IF make THEN heap + 1 ELSE heap,
                 IF make THEN {Shared(heap)} ELSE {})

\* __new__(cls, model_path=None, add_metrics_callbacks=None,
\* include_default_metrics=True, example_weight_key=None, shared_handle=None,
\* construct_fn=None).  `args` holds the six arguments, Omitted where the
\* caller passed none; `heap` is the identity of the next new object.
EvalSharedModel_new(args, heap) ==
  LET amc0 == Param(args.add_metrics_callbacks, PyNone)
      sh0 == Param(args.shared_handle, PyNone)
      \* if not add_metrics_callbacks: add_metrics_callbacks = []
      fresh == ~Truthy(amc0)
      amc == IF fresh THEN EmptyList(heap) ELSE amc0
      heap1 == IF fresh THEN heap + 1 ELSE heap
      \* if not shared_handle: shared_handle = shared.Shared()
      make == ~Truthy(sh0)
      sh == IF make THEN Shared(heap1) ELSE sh0
      heap2 == IF make THEN heap1 + 1 ELSE heap1
  IN Constructed(Fields(Param(args.model_path, PyNone), amc,
                        Param(args.include_default_metrics, PyTrue),
                        Param(args.example_weight_key, PyNone), sh,
                        Param(args.construct_fn, PyNone)),
                 heap2, IF make THEN {sh} ELSE {})

\* Mutant: reading the field hands out a private copy of the handle.
EvalSharedModel_shared_handle_copy(model) ==
  Shared(model.shared_handle.id + 100)

\* The fields of the named tuple, as a reader gets them.
EvalSharedModel_shared_handle(model) == model.shared_handle

EvalSharedModel_add_metrics_callbacks(model) == model.add_metrics_callbacks

\* Objects the callers own: a path, two lists of callbacks (one empty), a
\* weight key, a handle, a construct function.
CallerPath == Py("str", 0, <<47, 109>>)
CallerEmptyList == Py("list", 5, <<>>)
CallerCallbacks == Py("list", 6, <<1, 2>>)
CallerKey == Py("str", 0, <<119>>)
CallerHandle == Py("Shared", 7, <<>>)
CallerFn == Py("function", 8, <<>>)

CallbackArgs == {Omitted, PyNone, CallerEmptyList, CallerCallbacks,
                 Py("list", 4, <<2, 1>>)}

\* Every way of passing or omitting each of the six arguments.
AllArgs ==
  [model_path : {Omitted, PyNone, CallerPath},
   add_metrics_callbacks : CallbackArgs,
   include_default_metrics : {Omitted, PyTrue, PyFalse},
   example_weight_key : {Omitted, CallerKey},
   shared_handle : {Omitted, PyNone, CallerHandle},
   construct_fn : {Omitted, CallerFn}]

\* One construction, with any arguments.
NewEvalSharedModel ==
  /\ ~newCall.called
  /\ \E args \in AllArgs :
       LET r == EvalSharedModel_new(args, nextId)
       IN /\ newCall' = [called |-> TRUE, args |-> args, obj |-> r.obj,
                         created |-> r.created]
          /\ nextId' = r.heap
  /\ UNCHANGED <<sinkLog, renderLog, civ, models, obs>>

\* The handles of the instances constructed so far.
HandlesInUse == {models[i].obj.shared_handle : i \in DOMAIN models}

\* The arguments of an evaluation run's descriptors: the callbacks and the
\* handle vary, the handle possibly taken from an earlier descriptor.
RunArgs ==
  [model_path : {Omitted},
   add_metrics_callbacks : {Omitted, PyNone, CallerEmptyList, CallerCallbacks},
   include_default_metrics : {Omitted},
   example_weight_key : {Omitted},
   shared_handle : {Omitted, PyNone, CallerHandle} \cup HandlesInUse,
   construct_fn : {Omitted}]

\* A descriptor is constructed for the run.
AddEvalSharedModel ==
  /\ Len(models) < MaxModels
  /\ \E args \in RunArgs :
       LET r == EvalSharedModel_new(args, nextId)
       IN /\ models' = Append(models, [args |-> args, obj |-> r.obj,
                                       created |-> r.created])
          /\ nextId' = r.heap
  /\ UNCHANGED <<sinkLog, renderLog, civ, newCall, obs>>

\* An evaluation worker reads a descriptor's fields.
WorkerRead ==
  /\ \E w \in 1..NumWorkers, i \in DOMAIN models :
       obs' = [obs EXCEPT ![w] =
                 [inst |-> i,
                  shared_handle |-> EvalSharedModel_shared_handle(models[i].obj),
                  add_metrics_callbacks |->
                    EvalSharedModel_add_metrics_callbacks(models[i].obj)]]
  /\ UNCHANGED <<sinkLog, renderLog, civ, newCall, models, nextId>>

Init ==
  /\ sinkLog = <<>>
  /\ renderLog = <<>>
  /\ civ = [called |-> FALSE]
  /\ newCall = [called |-> FALSE]
  /\ models = <<>>
  /\ nextId = 10
  /\ obs = [w \in 1..NumWorkers |-> [inst |-> 0]]

SpecRender == Init /\ [][NextRender]_vars

SpecCiv == Init /\ [][NewValueWithConfidenceInterval]_vars

SpecNew == Init /\ [][NewEvalSharedModel]_vars

NextShared == AddEvalSharedModel \/ WorkerRead

SpecShared == Init /\ [][NextShared]_vars


(***************************************************************************)
(* The renderer's properties, under SpecRender.                            *)
(***************************************************************************)
\* C1: every render call invokes the sink exactly once, with the data and the
\* config it received, and with an identifier that depends on the function
\* alone; after any sequence of calls there are as many sink invocations as
\* render calls, the i-th invocation being the i-th call's.
C1_OneInvocationPerCall ==
  /\ Len(sinkLog) = Len(renderLog)
  /\ \A i \in DOMAIN renderLog :
       /\ Len(renderLog[i].sink) = 1
       /\ sinkLog[i] = renderLog[i].sink[1]
       /\ sinkLog[i].data = renderLog[i].data
       /\ sinkLog[i].config = renderLog[i].config
       /\ \A j \in DOMAIN renderLog :
            renderLog[j].fn = renderLog[i].fn
              => sinkLog[j].component = sinkLog[i].component

\* Two calls of one function with different data, the first of which failed.
C1_Witness ==
  /\ Len(renderLog) = 2
  /\ renderLog[1].fn = renderLog[2].fn
  /\ renderLog[1].data # renderLog[2].data
  /\ renderLog[1].raised # NoError
  /\ Len(sinkLog) = 2

\* The identifier the specification's text gives each function.
ShortComponent(fn) ==
  CASE fn = "render_slicing_metrics" -> "slicing-metrics"
    [] fn = "render_time_series" -> "time-series"
    [] fn = "render_plot" -> "plot"

\* The identifier with the notebook prefix.
PrefixedComponent(fn) ==
  CASE fn = "render_slicing_metrics" -> "tfma-nb-slicing-metrics"
    [] fn = "render_time_series" -> "tfma-nb-time-series"
    [] fn = "render_plot" -> "tfma-nb-plot"

\* C2 as stated: the sink receives "slicing-metrics", "time-series" or "plot".
C2_ShortIdentifiers ==
  \A i \in DOMAIN renderLog :
    \A k \in DOMAIN renderLog[i].sink :
      renderLog[i].sink[k].component = ShortComponent(renderLog[i].fn)

\* C2, amended: the sink receives "tfma-nb-slicing-metrics" from
\* render_slicing_metrics, "tfma-nb-time-series" from render_time_series and
\* "tfma-nb-plot" from render_plot; render_plot({"series": [1, 2, 3]},
\* {"title": "x"}) makes exactly one invocation, whose identifier is
\* "tfma-nb-plot".
C2_PrefixedIdentifiers ==
  \A i \in DOMAIN renderLog :
    /\ \A k \in DOMAIN renderLog[i].sink :
         renderLog[i].sink[k].component = PrefixedComponent(renderLog[i].fn)
    /\ (/\ renderLog[i].fn = "render_plot"
        /\ renderLog[i].data = PlotData
        /\ renderLog[i].config = PlotConfig)
         => /\ Len(renderLog[i].sink) = 1
            /\ renderLog[i].sink[1].component = "tfma-nb-plot"

\* render_plot({"series": [1, 2, 3]}, {"title": "x"}) has been called, after a
\* call of another function.
C2_Witness ==
  /\ Len(renderLog) = 2
  /\ renderLog[1].fn = "render_slicing_metrics"
  /\ renderLog[2].fn = "render_plot"
  /\ renderLog[2].data = PlotData
  /\ renderLog[2].config = PlotConfig

\* C8: a render call ends as its sink invocation ended: with the sink's
\* failure, unchanged and without a second invocation, when the sink failed,
\* and without any error when it did not, whatever the data and the config.
C8_SinkFailurePropagates ==
  \A i \in DOMAIN renderLog :
    /\ renderLog[i].raised = renderLog[i].sink[1].raised
    /\ renderLog[i].sink[1].raised # NoError => Len(renderLog[i].sink) = 1

\* A call with malformed data (None) that raised nothing, and a call that
\* ended in the sink's ValueError.
C8_Witness ==
  /\ Len(renderLog) = 2
  /\ renderLog[1].data = PyNone
  /\ renderLog[1].raised = NoError
  /\ renderLog[2].sink[1].raised = "ValueError"
  /\ renderLog[2].raised = "ValueError"

(***************************************************************************)
(* ValueWithConfidenceInterval's properties, under SpecCiv.                *)
(***************************************************************************)
\* C6: the instance holds the value passed; each optional field holds what
\* was passed for it, and None (not a number) when it was omitted.
C6_OmittedBoundsAreNone ==
  civ.called =>
    /\ civ.result.obj.value = civ.args.value
    /\ civ.result.obj.lower_bound =
         (IF civ.args.lower_bound = Omitted THEN PyNone ELSE civ.args.lower_bound)
    /\ civ.result.obj.upper_bound =
         (IF civ.args.upper_bound = Omitted THEN PyNone ELSE civ.args.upper_bound)
    /\ civ.result.obj.unsampled_value =
         (IF civ.args.unsampled_value = Omitted THEN PyNone
          ELSE civ.args.unsampled_value)

\* ValueWithConfidenceInterval(value=5.0).
C6_Witness ==
  /\ civ.called
  /\ civ.args.value = PyFloat(5)
  /\ civ.args.lower_bound = Omitted
  /\ civ.args.upper_bound = Omitted
  /\ civ.args.unsampled_value = Omitted
  /\ civ.result.obj.lower_bound = PyNone

\* Whether a > b, for two numbers.
Exceeds(a, b) == a.t = "float" /\ b.t = "float" /\ a.v[1] > b.v[1]

\* C7: construction raises nothing, whatever the order of lower_bound, value
\* and upper_bound, and the instance holds the values passed.
C7_NoBoundsValidation ==
  civ.called =>
    /\ civ.result.raised = NoError
    /\ \A f \in {"value", "lower_bound", "upper_bound", "unsampled_value"} :
         civ.args[f] # Omitted => civ.result.obj[f] = civ.args[f]

\* lower_bound > value > upper_bound, constructed.
C7_Witness ==
  /\ civ.called
  /\ Exceeds(civ.args.lower_bound, civ.args.value)
  /\ Exceeds(civ.args.value, civ.args.upper_bound)
  /\ Exceeds(civ.args.lower_bound, civ.args.upper_bound)
  /\ civ.args.unsampled_value # Omitted
  /\ civ.result.raised = NoError

(***************************************************************************)
(* EvalSharedModel's defaults, under SpecNew.                              *)
(***************************************************************************)
\* C5 as stated: model_path, include_default_metrics, example_weight_key and
\* construct_fn are each None when omitted.
C5_OthersDefaultToNone ==
  newCall.called =>
    \A f \in {"model_path", "include_default_metrics", "example_weight_key",
              "construct_fn"} :
      newCall.args[f] = Omitted => newCall.obj[f] = PyNone

\* C5, amended: model_path, example_weight_key and construct_fn are each None
\* when omitted, and include_default_metrics is True when omitted.
C5_DefaultsOfOtherFields ==
  newCall.called =>
    /\ \A f \in {"model_path", "example_weight_key", "construct_fn"} :
         newCall.args[f] = Omitted => newCall.obj[f] = PyNone
    /\ newCall.args.include_default_metrics = Omitted
         => newCall.obj.include_default_metrics = PyTrue

\* A construction that omits the four fields and passes the other two.
C5_Witness ==
  /\ newCall.called
  /\ \A f \in {"model_path", "include_default_metrics", "example_weight_key",
               "construct_fn"} : newCall.args[f] = Omitted
  /\ newCall.args.shared_handle = CallerHandle
  /\ newCall.args.add_metrics_callbacks = CallerCallbacks

(***************************************************************************)
(* EvalSharedModel's handle and callbacks, under SpecShared.               *)
(***************************************************************************)
\* Whether the i-th descriptor was constructed with no argument at all.
DefaultConstructed(i) ==
  \A f \in DOMAIN models[i].args : models[i].args[f] = Omitted

\* C3: a descriptor constructed with all defaults has an empty list of
\* callbacks and a handle that is not None, was made by that construction,
\* and is the handle of no other default-constructed descriptor.
C3_DefaultHandleIsFresh ==
  \A i \in DOMAIN models :
    DefaultConstructed(i) =>
      /\ models[i].obj.add_metrics_callbacks.t = "list"
      /\ models[i].obj.add_metrics_callbacks.v = <<>>
      /\ models[i].obj.shared_handle.t = "Shared"
      /\ models[i].obj.shared_handle \in models[i].created
      /\ \A j \in DOMAIN models :
           (j # i /\ DefaultConstructed(j))
             => models[j].obj.shared_handle # models[i].obj.shared_handle

\* Two descriptors constructed with all defaults.
C3_Witness ==
  /\ Len(models) = 2
  /\ DefaultConstructed(1)
  /\ DefaultConstructed(2)

\* C4: a descriptor constructed with a handle has exactly that handle, and
\* its construction made no handle.
C4_GivenHandleIsKept ==
  \A i \in DOMAIN models :
    models[i].args.shared_handle.t = "Shared" =>
      /\ models[i].obj.shared_handle = models[i].args.shared_handle
      /\ models[i].created = {}

\* A descriptor given the caller's handle, and one given the handle a default
\* construction made.
C4_Witness ==
  /\ Len(models) = 2
  /\ models[1].args.shared_handle = Omitted
  /\ models[2].args.shared_handle = models[1].obj.shared_handle
  /\ models[2].created = {}

\* C9: no step replaces a descriptor's handle, and what each worker has read
\* as a descriptor's handle is that descriptor's handle, so that two workers
\* which read the same descriptor hold the same handle.
C9_HandleNeverReplaced ==
  [][/\ \A i \in DOMAIN models :
          models'[i].obj.shared_handle = models[i].obj.shared_handle
     /\ \A w \in 1..NumWorkers :
          obs'[w].inst # 0
            => obs'[w].shared_handle = models'[obs'[w].inst].obj.shared_handle
     /\ \A w \in 1..NumWorkers, x \in 1..NumWorkers :
          (obs'[w].inst # 0 /\ obs'[w].inst = obs'[x].inst)
            => obs'[w].shared_handle = obs'[x].shared_handle]_vars

\* Two workers have read the first descriptor and a second one was
\* constructed since.
C9_Witness ==
  /\ Len(models) = 2
  /\ obs[1].inst = 1
  /\ obs[2].inst = 1
  /\ obs[1].shared_handle = models[1].obj.shared_handle

\* C10: from its construction on, a descriptor's add_metrics_callbacks is the
\* list passed when that was a non-empty list, and an empty list when it was
\* omitted, None or empty; every read returns that value.
C10_CallbacksNormalizedAtConstruction ==
  \A i \in DOMAIN models :
    LET passed == models[i].args.add_metrics_callbacks
        stored == models[i].obj.add_metrics_callbacks
    IN /\ IF passed.t = "list" /\ Len(passed.v) > 0
            THEN stored = passed
            ELSE stored.t = "list" /\ stored.v = <<>>
       /\ \A w \in 1..NumWorkers :
            obs[w].inst = i => obs[w].add_metrics_callbacks = stored

\* One descriptor given two callbacks and one given None, the second read by
\* a worker and the first not yet.
C10_Witness ==
  /\ Len(models) = 2
  /\ models[1].args.add_metrics_callbacks = CallerCallbacks
  /\ models[1].obj.add_metrics_callbacks.v = <<1, 2>>
  /\ models[2].args.add_metrics_callbacks = PyNone
  /\ obs[1].inst = 2
  /\ \A w \in 1..NumWorkers : obs[w].inst # 1

=============================================================================
